---- MODULE Spec2Model ----
(***************************************************************************)
(* aiohttp/client_reqrep.py: the release/close state machine of            *)
(* ClientResponse, the body-writer task created by ClientRequest.send()    *)
(* (write_bytes) and the coroutine read().                                  *)
(*                                                                         *)
(* The asyncio event loop is modelled as the code uses it: a task that     *)
(* reaches a terminal state does not run its done-callbacks at once: the    *)
(* callbacks registered so far are queued together (call_soon) and run     *)
(* back to back, in registration order, after the handlers that were       *)
(* already queued; a callback added to a finished task is queued on its    *)
(* own, behind them; `await task` on a finished task does not suspend.     *)
(***************************************************************************)
EXTENDS Integers, Sequences, FiniteSets, TLC

VARIABLES
    resp,       \* ClientResponse fields
    req,        \* ClientRequest fields shared with the response (writer handle, 100-continue future)
    task,       \* the asyncio.Task running ClientRequest.write_bytes
    content,    \* the payload stream (StreamReader) bound by start()
    conn,       \* the Connection / protocol collaborator
    reader,     \* the caller's coroutine inside ClientResponse.read()
    loopClosed, \* loop.is_closed()
    call,       \* the last call of a synchronous operation: its arguments and its outcome
    sender      \* a request under send(): its fields, the writer tasks send() made, the bytes on the wire

vars == <<resp, req, task, content, conn, reader, loopClosed, call, sender>>

\* ---------------------------------------------------------------- bounds
MaxReads == 3       \* read() calls made by the caller
MaxInfo == 2        \* informational (1xx) heads the peer sends before the final one
NChunks == 2        \* chunks of the request body
MaxCbs == 5         \* done-callbacks registered on the writer task at one time

None == "None"
Empty == ""
Payloads == {"abc", "xy"}          \* what the peer's payload stream delivers

Terminal == {"done", "cancelled", "failed"}      \* task.done()

\* no synchronous operation has been called
NoCall == [fn |-> None]

\* no request is followed through send()
NoSender == [pc |-> None]

\* the state the helpers thread through a handler: every object a handler touches
World == [resp |-> resp, req |-> req, task |-> task, content |-> content, conn |-> conn]

Set(w) ==
    /\ resp' = w.resp
    /\ req' = w.req
    /\ task' = w.task
    /\ content' = w.content
    /\ conn' = w.conn

\* ------------------------------------------------- asyncio.Task operations
\* Task.cancel(): no effect on a finished task, otherwise CancelledError is
\* thrown into the coroutine at its next step.
TaskCancel(w) ==
    IF w.task.state \in Terminal THEN w
    ELSE [w EXCEPT !.task.cancel = TRUE]

\* Task.add_done_callback(cb): registered on a running task, queued at once
\* (call_soon) on a finished one.
AddDoneCallback(w, cb) ==
    IF w.task.state \in Terminal
    THEN [w EXCEPT !.task.late = Append(@, cb)]
    ELSE [w EXCEPT !.task.cbs = Append(@, cb)]

\* ------------------------------------------------- Connection collaborator
ConnRelease(w) == [w EXCEPT !.conn.released = @ + 1]
ConnClose(w) == [w EXCEPT !.conn.closed = @ + 1]

\* set_exception(protocol, exc): the protocol's deferred-exception slot; the
\* content stream the response reads from is failed with the same error.
ProtocolSetException(w) ==
    [w EXCEPT !.conn.exc = TRUE,
              !.content.exc = IF w.content.bound /\ @ = None THEN "WriteError" ELSE @]

\* ------------------------------------------------- ClientResponse helpers
\* ClientResponse._release_connection, written without the writer check.
release_connection_nowait(w) ==
    IF w.resp.connection
    THEN [ConnRelease(w) EXCEPT !.resp.connection = FALSE]
    ELSE w

\* ClientResponse._release_connection that drops the release under a pending writer.
release_connection_nodefer(w) ==
    IF w.resp.connection /\ ~w.resp.writer
    THEN [ConnRelease(w) EXCEPT !.resp.connection = FALSE]
    ELSE w

\* ClientResponse._release_connection that forgets self._connection = None.
release_connection_keepbinding(w) ==
    IF w.resp.connection
    THEN IF ~w.resp.writer
         THEN ConnRelease(w)
         ELSE AddDoneCallback(w, "release")
    ELSE w

release_connection(w) ==
    IF w.resp.connection
    THEN IF ~w.resp.writer
         THEN [ConnRelease(w) EXCEPT !.resp.connection = FALSE]
         ELSE AddDoneCallback(w, "release")
    ELSE w

cleanup_writer(w) ==
    IF w.resp.writer THEN TaskCancel(w) ELSE w

\* ClientResponse._notify_content that only sets the flag.
notify_content_noexc(w) == [w EXCEPT !.resp.released = TRUE]

notify_content(w) ==
    [w EXCEPT !.content.exc = IF w.content.bound /\ @ = None THEN "ConnectionClosed" ELSE @,
              !.resp.released = TRUE]

\* resp.terminal records which of release() and close() ended the response
\* first (the Released and Closed states of the lifecycle); no code reads it.
Ended(w, how) == [w EXCEPT !.resp.terminal = IF @ = None THEN how ELSE @]

\* ClientResponse.release()
release(w) ==
    LET w1 == IF ~w.resp.released THEN notify_content(w) ELSE w
        w2 == [w1 EXCEPT !.resp.closed = TRUE]
    IN  Ended(release_connection(cleanup_writer(w2)), "Released")

\* ClientResponse.close() that hands the connection back instead of closing it.
close_releasing(w, loop_is_closed) ==
    LET w1 == IF ~w.resp.released THEN notify_content(w) ELSE w
        w2 == [w1 EXCEPT !.resp.closed = TRUE]
        w3 == cleanup_writer(w2)
    IN  Ended(IF loop_is_closed THEN w2
              ELSE IF w3.resp.connection
                   THEN [ConnRelease(w3) EXCEPT !.resp.connection = FALSE]
                   ELSE w3, "Closed")

\* ClientResponse.close() that forgets self._connection = None.
close_keepbinding(w, loop_is_closed) ==
    LET w1 == IF ~w.resp.released THEN notify_content(w) ELSE w
        w2 == [w1 EXCEPT !.resp.closed = TRUE]
        w3 == cleanup_writer(w2)
    IN  Ended(IF loop_is_closed THEN w2
              ELSE IF w3.resp.connection THEN ConnClose(w3) ELSE w3, "Closed")

\* ClientResponse.close()
close(w, loop_is_closed) ==
    LET w1 == IF ~w.resp.released THEN notify_content(w) ELSE w
        w2 == [w1 EXCEPT !.resp.closed = TRUE]
        w3 == cleanup_writer(w2)
    IN  Ended(IF loop_is_closed THEN w2
              ELSE IF w3.resp.connection
                   THEN [ConnClose(w3) EXCEPT !.resp.connection = FALSE]
                   ELSE w3, "Closed")

\* ClientResponse._response_eof that ignores protocol.upgraded.
response_eof_no_upgrade_check(w) ==
    IF w.resp.closed THEN w
    ELSE release_connection(cleanup_writer([w EXCEPT !.resp.closed = TRUE]))

\* ClientResponse._response_eof that leaves the writer alone.
response_eof_nocancel(w) ==
    IF w.resp.closed THEN w
    ELSE IF w.resp.connection /\ w.conn.upgraded THEN w
    ELSE release_connection([w EXCEPT !.resp.closed = TRUE])

\* ClientResponse._response_eof, the payload's on_eof callback
response_eof(w) ==
    IF w.resp.closed THEN w
    ELSE IF w.resp.connection /\ w.conn.upgraded THEN w
    ELSE release_connection(cleanup_writer([w EXCEPT !.resp.closed = TRUE]))


\* ------------------------------------------------- ClientRequest.__init__
\* Python values the constructor tests for truth: None, False and "" are false
Truthy(x) == x \notin {None, "False", Empty}

\* str.lower() / str.upper() on the header values and method names in use
lower(s) ==
    CASE s = "Chunked" -> "chunked"
      [] s = "GZip" -> "gzip"
      [] s = "100-Continue" -> "100-continue"
      [] s = "Keep-Alive" -> "keep-alive"
      [] s = "Close" -> "close"
      [] OTHER -> s

upper(s) ==
    CASE s = "get" -> "GET"
      [] s = "post" -> "POST"
      [] OTHER -> s

\* "chunked" in te
contains_chunked(te) == te \in {"chunked", "gzip, chunked"}

\* CIMultiDict.get(key, ""): a header that is absent reads as ""
get(h) == IF h = None THEN Empty ELSE h

GET_METHODS == {"GET", "HEAD", "OPTIONS", "TRACE"}

\* what the caller can pass as data: nothing, bytes, a stream of unknown length
Data == {None, "abc", "stream"}

\* Payload.size: None for a body whose length is not known
size_known(body) == body # "stream"

\* len(body) / Payload.size of a body of known length (the class default is b"")
len(body) == IF body = "abc" THEN 3 ELSE 0

\* an exception leaves the constructor: no request object
Fail(d, err) == [d EXCEPT !.error = IF @ = None THEN err ELSE @]

\* update_content_encoding without the clash check
update_content_encoding_nocheck(d, data) ==
    IF data = None THEN d
    ELSE IF lower(get(d.headers.CE)) # Empty THEN d
    ELSE IF Truthy(d.compress)
    THEN LET c == IF d.compress = "True" THEN "deflate" ELSE d.compress
         IN  [d EXCEPT !.compress = c, !.headers.CE = c, !.chunked = "True"]
    ELSE d

update_content_encoding(d, data) ==
    IF data = None THEN d
    ELSE IF lower(get(d.headers.CE)) # Empty
    THEN IF Truthy(d.compress)
         THEN Fail(d, "ValueError: compress can not be set if Content-Encoding header is set")
         ELSE d
    ELSE IF Truthy(d.compress)
    THEN LET c == IF d.compress = "True" THEN "deflate" ELSE d.compress
         IN  [d EXCEPT !.compress = c, !.headers.CE = c, !.chunked = "True"]
    ELSE d

update_body_from_data(d, data) ==
    IF data = None THEN d
    ELSE LET d1 == [d EXCEPT !.body = data]
         IN  IF ~Truthy(d1.chunked) /\ d1.headers.CL = None
             THEN IF ~size_known(data)
                  THEN [d1 EXCEPT !.chunked = "True"]
                  ELSE [d1 EXCEPT !.headers.CL = ToString(len(data))]
             ELSE d1

update_transfer_encoding(d) ==
    IF contains_chunked(lower(get(d.headers.TE)))
    THEN IF Truthy(d.chunked)
         THEN Fail(d, "ValueError: chunked can not be set if Transfer-Encoding: chunked header is set")
         ELSE d
    ELSE IF Truthy(d.chunked)
    THEN IF d.headers.CL # None
         THEN Fail(d, "ValueError: chunked can not be set if Content-Length header is set")
         ELSE [d EXCEPT !.headers.TE = "chunked"]
    ELSE IF d.headers.CL = None
    THEN [d EXCEPT !.headers.CL = ToString(len(d.body))]
    ELSE d

update_expect_continue(d, expect) ==
    LET d1 == IF expect THEN [d EXCEPT !.headers.EX = "100-continue"] ELSE d
        e == expect \/ lower(get(d.headers.EX)) = "100-continue"
    IN  [d1 EXCEPT !.continue = e]

\* a step of the constructor runs only if none before it raised
Then(d, nxt) == IF d.error # None THEN d ELSE nxt

\* ClientRequest.__init__: the draft after the steps that touch the method, the
\* flags, the body and the Content-Encoding, Content-Length, Transfer-Encoding
\* and Expect headers
ClientRequest(a) ==
    LET d0 == [method |-> upper(a.method), chunked |-> a.chunked, compress |-> a.compress,
               headers |-> a.headers, body |-> Empty, continue |-> FALSE, error |-> None]
        d1 == update_content_encoding(d0, a.data)
        d2 == Then(d1, update_body_from_data(d1, a.data))
        d3 == Then(d2, IF a.data # None \/ d2.method \notin GET_METHODS
                       THEN update_transfer_encoding(d2) ELSE d2)
    IN  Then(d3, update_expect_continue(d3, a.expect100))

\* the arguments a caller can pass
Methods == {"GET", "get", "POST", "DELETE"}
Flags == {None, "True", "False"}
RequestArgs ==
    [method : Methods, data : Data, chunked : Flags, compress : {None, "True", "gzip"},
     expect100 : BOOLEAN,
     headers : [CE : {None, Empty, "gzip"}, CL : {None, "3"},
                TE : {None, "Chunked", "gzip", "gzip, chunked"},
                EX : {None, "100-Continue", "200-ok"}]]

NewRequest ==
    /\ call = NoCall
    /\ \E a \in RequestArgs :
          call' = [fn |-> "ClientRequest", args |-> a, ret |-> ClientRequest(a)]
    /\ UNCHANGED <<resp, req, task, content, conn, reader, loopClosed, sender>>

\* ------------------------------------------------- ClientRequest.send
\* The state ClientRequest.send() leaves behind: headers written, the writer
\* task created and handed to the request and to the new response.  With an
\* eager task (Python >= 3.12) write_bytes has already run to its first
\* suspension point, or to its end; otherwise it has not run yet.
InitTask(armed, eager, finished) ==
    IF eager /\ ~armed /\ finished
    THEN [state |-> "done", cancel |-> FALSE, cbs |-> <<>>, late |-> <<>>, ran |-> TRUE,
          chunks |-> NChunks, eof |-> TRUE]
    ELSE [state |-> IF ~eager THEN "new" ELSE IF armed THEN "wait100" ELSE "body",
          cancel |-> FALSE,
          cbs |-> <<"req_reset_writer", "reset_writer">>, late |-> <<>>, ran |-> FALSE,
          chunks |-> IF eager /\ ~armed THEN 1 ELSE 0,
          eof |-> FALSE]

\* the requests that are sent: a POST of a body of known length, with and
\* without expect100 and an Expect header
SentRequests ==
    {a \in RequestArgs :
        /\ a.method = "POST" /\ a.data = "abc" /\ a.chunked = None /\ a.compress = None
        /\ a.headers.CE = None /\ a.headers.CL = None /\ a.headers.TE = None}

\* the exchange after send() has returned the response of request a
InitExchange(a, eager, finished, traces) ==
      LET armed == ClientRequest(a).continue IN
        /\ task = InitTask(armed, eager, finished)
        /\ req = [writer |-> task.state \notin Terminal,
                  continue |-> IF armed THEN "pending" ELSE None]
        /\ resp = [closed |-> TRUE, released |-> FALSE, body |-> None,
                   connection |-> FALSE, writer |-> req.writer,
                   continue |-> armed, traces |-> traces, started |-> "unstarted",
                   terminal |-> None, status |-> 0]
        /\ content = [bound |-> FALSE, eof |-> FALSE, exc |-> None, buf |-> Empty]
        /\ conn = [released |-> 0, closed |-> 0, upgraded |-> FALSE, exc |-> FALSE, infos |-> 0]
        /\ reader = [pc |-> "idle", n |-> 0, cached |-> FALSE, res |-> None, val |-> None,
                     okVals |-> {}, contentReads |-> 0]
        /\ loopClosed = FALSE
        /\ call = NoCall

Init ==
    /\ \E a \in SentRequests, eager \in BOOLEAN, finished \in BOOLEAN, traces \in BOOLEAN :
          InitExchange(a, eager, finished, traces)
    /\ sender = NoSender

\* ------------------------------------------------- ClientResponse.start()
StartBegin ==
    /\ ~loopClosed
    /\ resp.started = "unstarted"
    /\ resp' = [resp EXCEPT !.closed = FALSE, !.connection = TRUE, !.started = "reading"]
    /\ UNCHANGED <<req, task, content, conn, reader, loopClosed, call, sender>>

\* await protocol.read() suspends before a head can arrive, and the loop runs
\* the first step of the writer task, queued by send(), before any input
HeadReadable == ~loopClosed /\ resp.started = "reading" /\ task.state # "new"

\* the status codes of the heads the peer sends
PeerCodes == {100, 101, 199, 200}

\* a loop test that takes only 100 Continue for informational
informational_only100(code) == code = 100

\* start() breaks out of its loop on every head but these
informational(code) == ~(code < 100 \/ code > 199 \/ code = 101)

\* an informational head (100..199, not 101): the continuation waiter is
\* resolved the first time, the loop reads on
StartInformational ==
    /\ HeadReadable
    /\ conn.infos < MaxInfo
    /\ \E code \in PeerCodes : informational(code)
    /\ conn' = [conn EXCEPT !.infos = @ + 1]
    /\ IF resp.continue
       THEN /\ req' = [req EXCEPT !.continue = "resolved"]
            /\ resp' = [resp EXCEPT !.continue = FALSE]
       ELSE UNCHANGED <<req, resp>>
    /\ UNCHANGED <<task, content, reader, loopClosed, call, sender>>

\* the final head, its status one of codes: status recorded, payload bound,
\* on_eof registered
StartFinalOf(codes) ==
    /\ HeadReadable
    /\ \E code \in codes, upgraded \in BOOLEAN, data \in Payloads :
        /\ ~informational(code)
        /\ resp' = [resp EXCEPT !.started = "started", !.status = code]
        /\ conn' = [conn EXCEPT !.upgraded = upgraded]
        /\ content' = [bound |-> TRUE, eof |-> FALSE,
                       exc |-> IF conn.exc THEN "WriteError" ELSE None, buf |-> data]
    /\ UNCHANGED <<req, task, reader, loopClosed, call, sender>>

StartFinal == StartFinalOf(PeerCodes)

\* protocol.read() fails: start() raises, the response never starts
StartFail ==
    /\ HeadReadable
    /\ resp' = [resp EXCEPT !.started = "failed"]
    /\ UNCHANGED <<req, task, content, conn, reader, loopClosed, call, sender>>

\* ------------------------------------------------- ClientRequest.write_bytes
\* the caller goes from send() to start() without yielding to the loop, so
\* the loop runs the task only once start() awaits the head
Running == task.state \notin Terminal /\ ~loopClosed /\ resp.started # "unstarted"

\* first step of a task that was not started eagerly
WriterStart ==
    /\ Running /\ ~task.cancel
    /\ task.state = "new"
    /\ task' = IF req.continue # None
               THEN [task EXCEPT !.state = "wait100"]
               ELSE [task EXCEPT !.state = "body", !.chunks = 1]
    /\ UNCHANGED <<resp, req, content, conn, reader, loopClosed, call, sender>>

\* await writer.drain(); await self._continue  -- the waiter resolved
WriterContinue ==
    /\ Running /\ ~task.cancel
    /\ task.state = "wait100"
    /\ req.continue = "resolved"
    /\ task' = [task EXCEPT !.state = "body", !.chunks = 1]
    /\ UNCHANGED <<resp, req, content, conn, reader, loopClosed, call, sender>>

\* await writer.drain() raises: only CancelledError is caught there
WriterDrainFail ==
    /\ Running /\ ~task.cancel
    /\ task.state = "wait100"
    /\ task' = [task EXCEPT !.state = "failed"]
    /\ UNCHANGED <<resp, req, content, conn, reader, loopClosed, call, sender>>

\* a chunk write returns: next chunk, or the end-of-body marker
WriterChunk ==
    /\ Running /\ ~task.cancel
    /\ task.state = "body"
    /\ task' = IF task.chunks < NChunks
               THEN [task EXCEPT !.chunks = @ + 1]
               ELSE [task EXCEPT !.state = "eof", !.eof = TRUE]
    /\ UNCHANGED <<resp, req, content, conn, reader, loopClosed, call, sender>>

\* a chunk write raises OSError / Exception: handed to the protocol, swallowed
WriterChunkFail ==
    /\ Running /\ ~task.cancel
    /\ task.state = "body"
    /\ Set([ProtocolSetException(World) EXCEPT !.task.state = "done"])
    /\ UNCHANGED <<reader, loopClosed, call, sender>>

\* await writer.write_eof() returns (else branch: protocol.start_timeout())
WriterEofDone ==
    /\ Running /\ ~task.cancel
    /\ task.state \in {"eof", "eofc"}
    /\ task' = [task EXCEPT !.state = "done"]
    /\ UNCHANGED <<resp, req, content, conn, reader, loopClosed, call, sender>>

\* await writer.write_eof() raises: nothing catches it
WriterEofFail ==
    /\ Running /\ ~task.cancel
    /\ task.state \in {"eof", "eofc"}
    /\ task' = [task EXCEPT !.state = "failed"]
    /\ UNCHANGED <<resp, req, content, conn, reader, loopClosed, call, sender>>

\* write_bytes that writes the end-of-body marker on every cancellation
write_bytes_cancelled_always_eof(t) ==
    CASE t.state = "new" -> [t EXCEPT !.state = "cancelled", !.cancel = FALSE]
      [] t.state \in {"wait100", "body"} -> [t EXCEPT !.state = "eofc", !.eof = TRUE, !.cancel = FALSE]
      [] OTHER -> [t EXCEPT !.state = "cancelled", !.cancel = FALSE]

\* write_bytes that ends on a cancellation without the end-of-body marker
write_bytes_cancelled_truncating(t) ==
    CASE t.state = "new" -> [t EXCEPT !.state = "cancelled", !.cancel = FALSE]
      [] t.state = "wait100" -> [t EXCEPT !.state = "done", !.cancel = FALSE]
      [] OTHER -> [t EXCEPT !.state = "cancelled", !.cancel = FALSE]

\* write_bytes at the point where CancelledError is thrown into it
write_bytes_cancelled(t) ==
    CASE t.state = "new" -> [t EXCEPT !.state = "cancelled", !.cancel = FALSE]
      [] t.state = "wait100" -> [t EXCEPT !.state = "done", !.cancel = FALSE]
      [] t.state = "body" -> [t EXCEPT !.state = "eofc", !.eof = TRUE, !.cancel = FALSE]
      [] OTHER -> [t EXCEPT !.state = "cancelled", !.cancel = FALSE]

WriterCancelled ==
    /\ Running /\ task.cancel
    /\ task' = write_bytes_cancelled(task)
    /\ UNCHANGED <<resp, req, content, conn, reader, loopClosed, call, sender>>


\* ------------------------------------------------- release / close / eof
Started == resp.started = "started"

Release ==
    /\ Started
    /\ Len(task.cbs) + Len(task.late) < MaxCbs
    /\ Set(release(World))
    /\ UNCHANGED <<reader, loopClosed, call, sender>>

Close ==
    /\ Started
    /\ Set(close(World, loopClosed))
    /\ UNCHANGED <<reader, loopClosed, call, sender>>

\* the payload reaches its end: the stream is at EOF and runs its on_eof callback
EndOfPayload ==
    /\ ~loopClosed
    /\ content.bound /\ ~content.eof
    /\ Set(response_eof([World EXCEPT !.content.eof = TRUE]))
    /\ UNCHANGED <<reader, loopClosed, call, sender>>

\* loop.close(), after every task and callback has run
LoopClose ==
    /\ ~loopClosed
    /\ Started
    /\ task.state \in Terminal /\ task.ran /\ task.late = <<>>
    /\ reader.pc = "idle"
    /\ loopClosed' = TRUE
    /\ UNCHANGED <<resp, req, task, content, conn, reader, call, sender>>

\* ------------------------------------------------- ClientResponse.read()
\* a frame: the objects read() touches and the coroutine's own state
Frame == [w |-> World, r |-> reader]

SetFrame(f) == Set(f.w) /\ reader' = f.r

ReturnBody(f) ==
    [f EXCEPT !.r.pc = "idle", !.r.res = "ok", !.r.val = f.w.resp.body,
              !.r.okVals = @ \cup {f.w.resp.body}]

Raise(f, err) == [f EXCEPT !.r.pc = "idle", !.r.res = err, !.r.val = None]

\* _wait_released() resumed by the finished task
wait_released_resume(f) ==
    IF f.w.task.state = "done"
    THEN ReturnBody([f EXCEPT !.w = release_connection(f.w)])
    ELSE Raise(f, IF f.w.task.state = "cancelled" THEN "WriterCancelled" ELSE "WriterFailed")

\* _wait_released() releasing without awaiting the writer
wait_released_nowait(f) ==
    ReturnBody([f EXCEPT !.w = release_connection(f.w)])

\* _wait_released(), from its call to its first suspension or its end
wait_released(f) ==
    IF f.w.resp.writer
    THEN IF f.w.task.state \in Terminal
         THEN wait_released_resume(f)
         ELSE [f EXCEPT !.r.pc = "writer", !.w = AddDoneCallback(f.w, "wakeup")]
    ELSE ReturnBody([f EXCEPT !.w = release_connection(f.w)])

\* read(): lines after the body is known
read_tail(f) ==
    IF ~f.w.resp.connection \/ ~f.w.conn.upgraded
    THEN wait_released(f)
    ELSE ReturnBody(f)

\* except BaseException: self.close(); raise
read_failed(f, err) == Raise([f EXCEPT !.w = close(f.w, FALSE)], err)

\* self._body = await self.content.read()  (the stream hands its buffer over once)
content_read(f) ==
    IF f.w.content.exc # None
    THEN read_failed(f, f.w.content.exc)
    ELSE IF f.w.content.eof
    THEN LET g == [f EXCEPT !.w.resp.body = f.w.content.buf, !.w.content.buf = Empty]
         IN  IF g.w.resp.traces THEN [g EXCEPT !.r.pc = "trace"] ELSE read_tail(g)
    ELSE [f EXCEPT !.r.pc = "content"]

\* read() that goes to the stream although the body is cached
read_nocache(f) ==
    content_read([f EXCEPT !.r.contentReads = @ + 1])

\* read() without the check of _released
read_noreleasedcheck(f) ==
    IF f.w.resp.body = None
    THEN content_read([f EXCEPT !.r.contentReads = @ + 1])
    ELSE read_tail(f)

\* read(), from the call to its first suspension or its end
read(f) ==
    IF f.w.resp.body = None
    THEN content_read([f EXCEPT !.r.contentReads = @ + 1])
    ELSE IF f.w.resp.released
    THEN Raise(f, "ConnectionClosed")
    ELSE read_tail(f)

ReadCall ==
    /\ ~loopClosed
    /\ Started
    /\ reader.pc = "idle"
    /\ reader.n < MaxReads
    /\ Len(task.cbs) + Len(task.late) < MaxCbs
    /\ SetFrame(read([Frame EXCEPT !.r.n = @ + 1, !.r.cached = (resp.body # None),
                                   !.r.res = None, !.r.val = None]))
    /\ UNCHANGED <<loopClosed, call, sender>>

\* content.read() resumes: the stream failed or reached EOF
ReadContentResume ==
    /\ ~loopClosed
    /\ reader.pc = "content"
    /\ content.exc # None \/ content.eof
    /\ SetFrame(content_read(Frame))
    /\ UNCHANGED <<loopClosed, call, sender>>

\* trace.send_response_chunk_received returns
ReadTraceDone ==
    /\ ~loopClosed
    /\ reader.pc = "trace"
    /\ SetFrame(read_tail(Frame))
    /\ UNCHANGED <<loopClosed, call, sender>>

\* trace.send_response_chunk_received raises
ReadTraceFail ==
    /\ ~loopClosed
    /\ reader.pc = "trace"
    /\ SetFrame(read_failed(Frame, "TraceError"))
    /\ UNCHANGED <<loopClosed, call, sender>>

\* ------------------------------------------------- done-callbacks of the task
\* ClientResponse.__reset_writer
reset_writer(w) == [w EXCEPT !.resp.writer = FALSE]

\* ClientRequest.__reset_writer
req_reset_writer(w) == [w EXCEPT !.req.writer = FALSE]

\* one done-callback of the finished task
RunCallback(f, cb) ==
    CASE cb = "req_reset_writer" -> [f EXCEPT !.w = req_reset_writer(f.w)]
      [] cb = "reset_writer" -> [f EXCEPT !.w = reset_writer(f.w)]
      [] cb = "release" -> [f EXCEPT !.w = release_connection(f.w)]
      [] cb = "wakeup" -> wait_released_resume(f)

RECURSIVE RunCallbacks(_, _)
RunCallbacks(f, q) ==
    IF q = <<>> THEN f ELSE RunCallbacks(RunCallback(f, Head(q)), Tail(q))

\* the callbacks registered while the task ran, run back to back once it is done
DoneCallbacks ==
    /\ ~loopClosed
    /\ task.state \in Terminal /\ ~task.ran
    /\ SetFrame(RunCallbacks([Frame EXCEPT !.w.task.cbs = <<>>, !.w.task.ran = TRUE], task.cbs))
    /\ UNCHANGED <<loopClosed, call, sender>>

\* a callback that was added to the finished task: lambda f: self._release_connection()
LateCallback ==
    /\ ~loopClosed
    /\ task.ran /\ task.late # <<>>
    /\ SetFrame(RunCallback([Frame EXCEPT !.w.task.late = Tail(@)], Head(task.late)))
    /\ UNCHANGED <<loopClosed, call, sender>>

\* ------------------------------------------------- specification
Next ==
    \/ StartBegin \/ StartInformational \/ StartFinal \/ StartFail
    \/ WriterStart \/ WriterContinue \/ WriterDrainFail \/ WriterChunk
    \/ WriterChunkFail \/ WriterEofDone \/ WriterEofFail \/ WriterCancelled
    \/ DoneCallbacks \/ LateCallback
    \/ Release \/ Close \/ EndOfPayload \/ LoopClose
    \/ ReadCall \/ ReadContentResume \/ ReadTraceDone \/ ReadTraceFail

Spec == Init /\ [][Next]_vars

\* The event loop runs every callback it has queued, a task into which
\* CancelledError is thrown takes its next step, write_eof() comes back, and a
\* read() whose stream has ended or failed is resumed.
Fairness ==
    /\ WF_vars(WriterCancelled)
    /\ WF_vars(WriterEofDone \/ WriterEofFail)
    /\ WF_vars(DoneCallbacks)
    /\ WF_vars(LateCallback)
    /\ WF_vars(ReadContentResume)

\* one exchange under a fair loop: no trace hooks, and a peer whose final
\* answer is 200 with the payload "abc"
InitFair == Init /\ ~resp.traces

NextFair ==
    \/ StartBegin \/ StartInformational \/ StartFail
    \/ (StartFinal /\ resp'.status = 200 /\ content'.buf = "abc")
    \/ WriterStart \/ WriterContinue \/ WriterDrainFail \/ WriterChunk
    \/ WriterChunkFail \/ WriterEofDone \/ WriterEofFail \/ WriterCancelled
    \/ DoneCallbacks \/ LateCallback
    \/ Release \/ Close \/ EndOfPayload \/ LoopClose
    \/ ReadCall \/ ReadContentResume

FairSpec == InitFair /\ [][NextFair]_vars /\ Fairness

TypeOK ==
    /\ resp.closed \in BOOLEAN /\ resp.released \in BOOLEAN
    /\ resp.body \in Payloads \cup {None, Empty}
    /\ task.state \in {"new", "wait100", "body", "eof", "eofc"} \cup Terminal
    /\ Len(task.cbs) + Len(task.late) <= MaxCbs + MaxReads
    /\ content.exc \in {None, "ConnectionClosed", "WriteError"}
    /\ reader.pc \in {"idle", "content", "trace", "writer"}
    /\ reader.n <= MaxReads
    /\ conn.released \in Nat /\ conn.closed \in Nat


\* ------------------------------------------------- ClientResponse.raise_for_status
\* the status codes of the final heads around the limit of ClientResponse.ok
StatusCodes == {399, 400}

\* ClientResponse.ok
ok(w) == 400 > w.resp.status

\* raise_for_status() that raises without releasing
raise_for_status_norelease(w) ==
    IF ~ok(w)
    THEN [w |-> w, error |-> "ClientResponseError", status |-> w.resp.status]
    ELSE [w |-> w, error |-> None, status |-> 0]

\* ClientResponse.raise_for_status: the objects as it leaves them and the
\* error it raises
raise_for_status(w) ==
    IF ~ok(w)
    THEN [w |-> release(w), error |-> "ClientResponseError", status |-> w.resp.status]
    ELSE [w |-> w, error |-> None, status |-> 0]

RaiseForStatus ==
    /\ call = NoCall
    /\ Started
    /\ Len(task.cbs) + Len(task.late) < MaxCbs
    /\ LET r == raise_for_status(World)
       IN  /\ Set(r.w)
           /\ call' = [fn |-> "raise_for_status", error |-> r.error, status |-> r.status]
    /\ UNCHANGED <<reader, loopClosed, sender>>

\* one exchange without trace hooks in which the caller checks the status once
NextStatus ==
    \/ StartBegin \/ StartInformational \/ StartFail
    \/ (StartFinalOf(StatusCodes) /\ content'.buf = "abc")
    \/ WriterStart \/ WriterContinue \/ WriterDrainFail \/ WriterChunk
    \/ WriterChunkFail \/ WriterEofDone \/ WriterEofFail \/ WriterCancelled
    \/ DoneCallbacks \/ LateCallback
    \/ Release \/ Close \/ EndOfPayload \/ LoopClose
    \/ ReadCall \/ ReadContentResume
    \/ RaiseForStatus

SpecStatus == InitFair /\ [][NextStatus]_vars

\* ------------------------------------------------- ClientResponse.__del__
\* ClientResponse.__del__; debug is loop.get_debug()
__del__(w, debug) ==
    IF w.resp.closed THEN [w |-> w, warned |-> FALSE]
    ELSE IF w.resp.connection
    THEN [w |-> cleanup_writer(ConnRelease(w)), warned |-> debug]
    ELSE [w |-> w, warned |-> FALSE]

\* The response is destroyed once nothing refers to it: no read() is running
\* and the writer task, whose done-callbacks are bound methods of the
\* response, has finished and has run them.
Del ==
    /\ call = NoCall
    /\ resp.started # "unstarted"
    /\ reader.pc = "idle"
    /\ task.state \in Terminal /\ task.ran /\ task.late = <<>>
    /\ \E debug \in BOOLEAN :
          LET d == __del__(World, debug)
          IN  /\ Set(d.w)
              /\ call' = [fn |-> "__del__", open |-> ~resp.closed, warned |-> d.warned]
    /\ UNCHANGED <<reader, loopClosed, sender>>

\* the lifecycle of a response that may be dropped: nothing is called on a
\* destroyed response
Alive == call = NoCall

NextDel ==
    \/ (Alive /\ StartBegin)
    \/ (Alive /\ StartInformational)
    \/ (Alive /\ StartFinal)
    \/ (Alive /\ StartFail)
    \/ (Alive /\ WriterStart)
    \/ (Alive /\ WriterContinue)
    \/ (Alive /\ WriterDrainFail)
    \/ (Alive /\ WriterChunk)
    \/ (Alive /\ WriterChunkFail)
    \/ (Alive /\ WriterEofDone)
    \/ (Alive /\ WriterEofFail)
    \/ (Alive /\ WriterCancelled)
    \/ (Alive /\ DoneCallbacks)
    \/ (Alive /\ LateCallback)
    \/ (Alive /\ Release)
    \/ (Alive /\ Close)
    \/ (Alive /\ EndOfPayload)
    \/ (Alive /\ LoopClose)
    \/ (Alive /\ ReadCall)
    \/ (Alive /\ ReadContentResume)
    \/ (Alive /\ ReadTraceDone)
    \/ (Alive /\ ReadTraceFail)
    \/ Del

SpecDel == Init /\ [][NextDel]_vars

\* ------------------------------------------------- ClientRequest.keep_alive
HttpVersion10 == <<1, 0>>
HttpVersion11 == <<1, 1>>

\* tuple comparison of HttpVersion(major, minor)
version_lt(v, u) == v[1] < u[1] \/ (v[1] = u[1] /\ v[2] < u[2])

\* keep_alive() that treats HTTP/1.0 as HTTP/1.1
keep_alive_as11(version, headers) ==
    IF version_lt(version, HttpVersion10) THEN FALSE
    ELSE IF headers.CO = "close" THEN FALSE
    ELSE TRUE

keep_alive(version, headers) ==
    IF version_lt(version, HttpVersion10) THEN FALSE
    ELSE IF version = HttpVersion10
    THEN IF headers.CO = "keep-alive" THEN TRUE ELSE FALSE
    ELSE IF headers.CO = "close" THEN FALSE
    ELSE TRUE

Versions == {<<0, 9>>, HttpVersion10, HttpVersion11, <<2, 0>>}
ConnectionValues == {None, "keep-alive", "close", "Keep-Alive", "Close", "upgrade"}

KeepAlive ==
    /\ call = NoCall
    /\ \E v \in Versions, co \in ConnectionValues :
          call' = [fn |-> "keep_alive", args |-> [version |-> v, headers |-> [CO |-> co]],
                   ret |-> keep_alive(v, [CO |-> co])]
    /\ UNCHANGED <<resp, req, task, content, conn, reader, loopClosed, sender>>

\* ------------------------------------------------- Fingerprint.__init__
MaxDigestLen == 33      \* longest digest handed to Fingerprint()

\* HASHFUNC_BY_DIGESTLEN.get(digestlen)
HASHFUNC_BY_DIGESTLEN(n) ==
    CASE n = 16 -> "md5"
      [] n = 20 -> "sha1"
      [] n = 32 -> "sha256"
      [] OTHER -> None

\* Fingerprint.__init__ without the refusal of md5 and sha1
Fingerprint_allow_insecure(fingerprint) ==
    LET hashfunc == HASHFUNC_BY_DIGESTLEN(Len(fingerprint))
    IN  IF hashfunc = None
        THEN [error |-> "ValueError: fingerprint has invalid length"]
        ELSE [error |-> None, hashfunc |-> hashfunc, fingerprint |-> fingerprint]

Fingerprint(fingerprint) ==
    LET digestlen == Len(fingerprint)
        hashfunc == HASHFUNC_BY_DIGESTLEN(digestlen)
    IN  IF hashfunc = None
        THEN [error |-> "ValueError: fingerprint has invalid length"]
        ELSE IF hashfunc = "md5" \/ hashfunc = "sha1"
        THEN [error |-> "ValueError: md5 and sha1 are insecure and not supported. Use sha256."]
        ELSE [error |-> None, hashfunc |-> hashfunc, fingerprint |-> fingerprint]

\* digests: n equal bytes
Digests == {[i \in 1..n |-> b] : n \in 0..MaxDigestLen, b \in {0, 255}}

NewFingerprint ==
    /\ call = NoCall
    /\ \E fp \in Digests :
          call' = [fn |-> "Fingerprint", args |-> fp, ret |-> Fingerprint(fp)]
    /\ UNCHANGED <<resp, req, task, content, conn, reader, loopClosed, sender>>

\* ------------------------------------------------- ClientRequest.connection_key
HashBits == 1           \* width of hash() values

\* the proxy header sets in use: tuple((k, v) for k, v in proxy_headers.items())
HeaderTuples == {<<<<"X", "1">>>>, <<<<"X", "2">>>>}

\* hash() of a tuple of strings is keyed by the interpreter's hash seed: one
\* function per process, from tuples to integers of fixed width
HashFunctions == [HeaderTuples -> 0..(2^HashBits - 1)]

\* URL.port: the explicit port, else the default port of the scheme
url_port(url) ==
    IF url.explicit_port # 0 THEN url.explicit_port
    ELSE IF url.scheme \in {"https", "wss"} THEN 443 ELSE 80

\* ClientRequest.is_ssl
is_ssl(r) == r.url.scheme \in {"https", "wss"}

\* `if proxy_headers:` -- neither None nor an empty CIMultiDict
truthy_headers(h) == ~h.none /\ h.items # <<>>

\* ClientRequest.connection_key: the ConnectionKey dataclass, compared field by
\* field (proxy_headers_hash: <<h>>, or <<>> for None)
connection_key(r, hash) ==
    [host |-> r.url.host, port |-> url_port(r.url), is_ssl |-> is_ssl(r), ssl |-> r.ssl,
     proxy |-> r.proxy, proxy_auth |-> r.proxy_auth,
     proxy_headers_hash |-> IF truthy_headers(r.proxy_headers)
                            THEN <<hash[r.proxy_headers.items]>> ELSE <<>>]

\* the request state connection_key reads (explicit_port 0: none in the URL)
KeyRequests ==
    [url : [scheme : {"http", "https"}, host : {"a.test", "b.test"}, explicit_port : {0, 443}],
     ssl : {"True", "SSLContext", "Fingerprint"},
     proxy : {None, "http://proxy.test"},
     proxy_auth : {None, "BasicAuth(u, p)"},
     proxy_headers : {[none |-> TRUE, items |-> <<>>]}
                     \cup {[none |-> FALSE, items |-> t] : t \in {<<>>} \cup HeaderTuples}]

\* two requests of one process ask for their keys
ConnectionKeys ==
    /\ call = NoCall
    /\ \E r1 \in KeyRequests, r2 \in KeyRequests, hash \in HashFunctions :
          call' = [fn |-> "connection_key", args |-> <<r1, r2>>,
                   ret |-> <<connection_key(r1, hash), connection_key(r2, hash)>>]
    /\ UNCHANGED <<resp, req, task, content, conn, reader, loopClosed, sender>>

\* ------------------------------------------------- the synchronous operations
\* one call per behaviour, on a request that has not been sent
InitCalls == Init /\ task.state = "new" /\ req.continue = None /\ ~resp.traces

NextCalls == NewRequest \/ KeepAlive \/ NewFingerprint \/ ConnectionKeys

SpecCalls == InitCalls /\ [][NextCalls]_vars

Range(q) == {q[i] : i \in 1..Len(q)}

\* ------------------------------------------------- ClientRequest.send / terminate / close
MaxSends == 2       \* send() calls made on one request
MaxCloses == 1      \* close() calls made on one request

POST_METHODS == {"PATCH", "POST", "PUT"}

\* CIMultiDict.get(key) on the values of one header: the first one, None if absent
first(values) == IF values = <<>> THEN None ELSE Head(values)

\* the values of the Connection header a caller can pass (headers.add keeps all)
ConnectionHeaders ==
    {<<>>, <<"keep-alive">>, <<"close">>, <<"upgrade">>, <<Empty>>, <<"keep-alive", "upgrade">>}

\* the requests whose headers send() is followed on: every framing (method,
\* data, chunked and compress flags, Content-Length and Transfer-Encoding
\* headers) with every version, Connection header and Content-Type
HeadInputs ==
    {[a |-> a, version |-> v, co |-> co, ct |-> ct] :
        a \in {x \in RequestArgs : /\ x.method \in {"GET", "POST"} /\ x.compress \in {None, "gzip"}
                                   /\ ~x.expect100 /\ x.headers.CE = None /\ x.headers.EX = None
                                   /\ x.headers.TE \in {None, "Chunked"}},
        v \in Versions, co \in ConnectionHeaders, ct \in {None, "text/plain"}}

\* the requests whose writer tasks are followed: a POST on HTTP/1.1, with and
\* without expect100
SendInputs ==
    {[a |-> a, version |-> HttpVersion11, co |-> <<>>, ct |-> None] :
        a \in {x \in SentRequests : x.headers.EX = None}}

\* the fields of a constructed request that send() reads and writes
Request(i) ==
    LET d == ClientRequest(i.a)
    IN  [method |-> d.method, version |-> i.version, chunked |-> d.chunked,
         compress |-> d.compress, body |-> d.body,
         headers |-> [CL |-> d.headers.CL, TE |-> d.headers.TE, CO |-> i.co, CT |-> i.ct]]

\* a task that has not been created
NoTask == [state |-> "none", cancel |-> FALSE, cbs |-> <<>>, late |-> <<>>, ran |-> FALSE,
           chunks |-> 0, eof |-> FALSE]

\* a StreamWriter that has not been created
NoStream == [made |-> FALSE, compression |-> FALSE, chunking |-> FALSE]

Sends == 1..MaxSends

NewSender(i, eager) ==
    [request |-> Request(i),
     continue |-> IF ClientRequest(i.a).continue THEN "pending" ELSE None,
     writer |-> 0,                                  \* request._writer: a task of Sends, 0 for None
     eager |-> eager,                               \* sys.version_info >= (3, 12)
     pc |-> "idle", n |-> 0,                        \* the send() coroutine and the calls made
     stream |-> [k \in Sends |-> NoStream],
     tasks |-> [k \in Sends |-> NoTask],
     wire |-> [k \in Sends |-> <<>>],               \* what send() k and its task wrote, in order
     response |-> [k \in Sends |-> FALSE],          \* response k holds its writer handle
     exc |-> FALSE,                                 \* the protocol's deferred-exception slot
     closer |-> [pc |-> "idle", n |-> 0, k |-> 0, res |-> None]]

\* send() that adds Connection: close to an HTTP/1.0 request without keep-alive
send_head_close10(r) ==
    LET connection0 == first(r.headers.CO)
        connection ==
            IF ~Truthy(connection0)
            THEN IF keep_alive(r.version, [CO |-> connection0])
                 THEN IF r.version = HttpVersion10 THEN "keep-alive" ELSE connection0
                 ELSE IF r.version = HttpVersion10 THEN "close" ELSE connection0
            ELSE connection0
    IN  [stream |-> [made |-> TRUE, compression |-> Truthy(r.compress),
                     chunking |-> r.chunked # None],
         headers |-> [r.headers EXCEPT
                        !.CT = IF r.method \in POST_METHODS /\ @ = None
                               THEN "application/octet-stream" ELSE @,
                        !.CO = IF connection # None THEN <<connection>> ELSE @]]

\* send() up to the header write: the StreamWriter it sets up and the header
\* set it leaves (skip_auto_headers empty)
send_head(r) ==
    LET connection0 == first(r.headers.CO)
        connection ==
            IF ~Truthy(connection0)
            THEN IF keep_alive(r.version, [CO |-> connection0])
                 THEN IF r.version = HttpVersion10 THEN "keep-alive" ELSE connection0
                 ELSE IF r.version = HttpVersion11 THEN "close" ELSE connection0
            ELSE connection0
    IN  [stream |-> [made |-> TRUE, compression |-> Truthy(r.compress),
                     chunking |-> r.chunked # None],
         headers |-> [r.headers EXCEPT
                        !.CT = IF r.method \in POST_METHODS /\ @ = None
                               THEN "application/octet-stream" ELSE @,
                        !.CO = IF connection # None THEN <<connection>> ELSE @]]

\* a header write that puts nothing on the wire
write_headers_nothing(wire) == wire

\* await writer.write_headers(status_line, self.headers)
write_headers(wire) == Append(wire, "headers")

\* what a task has written when it first suspends or ends
Written(t) == [i \in 1..t.chunks |-> "chunk"] \o (IF t.eof THEN <<"eof">> ELSE <<>>)

Without(q, cb) == SelectSeq(q, LAMBDA x : x # cb)

\* Task.remove_done_callback: the callbacks of a finished task are already
\* scheduled and cannot be taken back
remove_done_callback(t, cb) ==
    IF t.state \in Terminal \cup {"none"} THEN t ELSE [t EXCEPT !.cbs = Without(@, cb)]

\* Task.cancel()
cancel(t) == IF t.state \in Terminal THEN t ELSE [t EXCEPT !.cancel = TRUE]

\* the setter of ClientRequest._writer dropping the handle it held
drop_writer(s) ==
    IF s.writer # 0
    THEN [s EXCEPT !.tasks[s.writer] = remove_done_callback(@, "req_reset_writer")]
    ELSE s

\* terminate() that leaves the completion observer on the task
terminate_keep_observer(s, loop_is_closed) ==
    IF s.writer # 0
    THEN LET k == s.writer
             s1 == IF ~loop_is_closed THEN [s EXCEPT !.tasks[k] = cancel(@)] ELSE s
         IN  [s1 EXCEPT !.writer = 0]
    ELSE s

\* ClientRequest.terminate()
terminate(s, loop_is_closed) ==
    IF s.writer # 0
    THEN LET k == s.writer
             s1 == IF ~loop_is_closed THEN [s EXCEPT !.tasks[k] = cancel(@)] ELSE s
             s2 == [s1 EXCEPT !.tasks[k] = remove_done_callback(@, "req_reset_writer")]
         IN  [drop_writer(s2) EXCEPT !.writer = 0]
    ELSE s

Other == <<resp, req, task, content, conn, reader, call>>

\* send(): from the call to `await writer.write_headers(...)`
SendBegin ==
    /\ ~loopClosed
    /\ sender.pc = "idle" /\ sender.n < MaxSends
    /\ LET h == send_head(sender.request)
           k == sender.n + 1
       IN  sender' = [sender EXCEPT !.pc = "headers", !.n = k, !.stream[k] = h.stream,
                                    !.request.headers = h.headers]
    /\ UNCHANGED <<Other, loopClosed>>

\* the header write returns: the task is created (and, started eagerly, runs
\* to its first suspension or its end), handed to the request and to the new
\* response
SendHeadersWritten ==
    /\ ~loopClosed
    /\ sender.pc = "headers"
    /\ \E finished \in BOOLEAN :
          LET k == sender.n
              t == InitTask(sender.continue # None, sender.eager, finished)
              s == drop_writer(sender)
          IN  sender' = [s EXCEPT !.pc = "idle",
                                  !.wire[k] = write_headers(@) \o Written(t),
                                  !.tasks[k] = t,
                                  !.writer = IF t.state \in Terminal THEN 0 ELSE k,
                                  !.response[k] = t.state \notin Terminal]
    /\ UNCHANGED <<Other, loopClosed>>

\* the header write raises: send() raises, no task is created
SendHeadersFail ==
    /\ ~loopClosed
    /\ sender.pc = "headers"
    /\ sender' = [sender EXCEPT !.pc = "idle"]
    /\ UNCHANGED <<Other, loopClosed>>

\* task k can take a step
Runs(k) == ~loopClosed /\ sender.tasks[k].state \notin Terminal \cup {"none"}

TaskStart ==
    /\ \E k \in Sends :
        /\ Runs(k) /\ ~sender.tasks[k].cancel
        /\ sender.tasks[k].state = "new"
        /\ sender' = IF sender.continue # None
                     THEN [sender EXCEPT !.tasks[k].state = "wait100"]
                     ELSE [sender EXCEPT !.tasks[k].state = "body", !.tasks[k].chunks = 1,
                                         !.wire[k] = Append(@, "chunk")]
    /\ UNCHANGED <<Other, loopClosed>>

TaskContinue ==
    /\ \E k \in Sends :
        /\ Runs(k) /\ ~sender.tasks[k].cancel
        /\ sender.tasks[k].state = "wait100"
        /\ sender.continue = "resolved"
        /\ sender' = [sender EXCEPT !.tasks[k].state = "body", !.tasks[k].chunks = 1,
                                    !.wire[k] = Append(@, "chunk")]
    /\ UNCHANGED <<Other, loopClosed>>

TaskDrainFail ==
    /\ \E k \in Sends :
        /\ Runs(k) /\ ~sender.tasks[k].cancel
        /\ sender.tasks[k].state = "wait100"
        /\ sender' = [sender EXCEPT !.tasks[k].state = "failed"]
    /\ UNCHANGED <<Other, loopClosed>>

TaskChunk ==
    /\ \E k \in Sends :
        /\ Runs(k) /\ ~sender.tasks[k].cancel
        /\ sender.tasks[k].state = "body"
        /\ sender' = IF sender.tasks[k].chunks < NChunks
                     THEN [sender EXCEPT !.tasks[k].chunks = @ + 1,
                                         !.wire[k] = Append(@, "chunk")]
                     ELSE [sender EXCEPT !.tasks[k].state = "eof", !.tasks[k].eof = TRUE,
                                         !.wire[k] = Append(@, "eof")]
    /\ UNCHANGED <<Other, loopClosed>>

TaskChunkFail ==
    /\ \E k \in Sends :
        /\ Runs(k) /\ ~sender.tasks[k].cancel
        /\ sender.tasks[k].state = "body"
        /\ sender' = [sender EXCEPT !.tasks[k].state = "done", !.exc = TRUE]
    /\ UNCHANGED <<Other, loopClosed>>

TaskEofDone ==
    /\ \E k \in Sends :
        /\ Runs(k) /\ ~sender.tasks[k].cancel
        /\ sender.tasks[k].state \in {"eof", "eofc"}
        /\ sender' = [sender EXCEPT !.tasks[k].state = "done"]
    /\ UNCHANGED <<Other, loopClosed>>

TaskEofFail ==
    /\ \E k \in Sends :
        /\ Runs(k) /\ ~sender.tasks[k].cancel
        /\ sender.tasks[k].state \in {"eof", "eofc"}
        /\ sender' = [sender EXCEPT !.tasks[k].state = "failed"]
    /\ UNCHANGED <<Other, loopClosed>>

\* CancelledError is thrown into task k
TaskCancelled ==
    /\ \E k \in Sends :
        /\ Runs(k) /\ sender.tasks[k].cancel
        /\ LET t == write_bytes_cancelled(sender.tasks[k])
           IN  sender' = [sender EXCEPT !.tasks[k] = t,
                              !.wire[k] = IF t.state = "eofc" THEN Append(@, "eof") ELSE @]
    /\ UNCHANGED <<Other, loopClosed>>

\* the loop runs the done-callbacks of the finished task k
TaskCallbacks ==
    /\ \E k \in Sends :
        /\ ~loopClosed
        /\ sender.tasks[k].state \in Terminal /\ ~sender.tasks[k].ran
        /\ LET cbs == sender.tasks[k].cbs
           IN  sender' = [sender EXCEPT
                   !.tasks[k].ran = TRUE, !.tasks[k].cbs = <<>>,
                   !.writer = IF "req_reset_writer" \in Range(cbs) THEN 0 ELSE @,
                   !.response[k] = IF "reset_writer" \in Range(cbs) THEN FALSE ELSE @]
    /\ UNCHANGED <<Other, loopClosed>>

\* the response's start() resolves the continuation waiter
ContinueResolved ==
    /\ ~loopClosed
    /\ sender.n >= 1 /\ sender.continue = "pending"
    /\ sender' = [sender EXCEPT !.continue = "resolved"]
    /\ UNCHANGED <<Other, loopClosed>>

Terminate ==
    /\ sender.n >= 1
    /\ sender' = terminate(sender, loopClosed)
    /\ UNCHANGED <<Other, loopClosed>>

\* what `await self._writer` gives close() once task t is finished:
\* CancelledError is suppressed, any other exception leaves close()
close_result(t) == IF t.state = "failed" THEN "WriterFailed" ELSE "ok"

\* ClientRequest.close(), from the call to its suspension or its end
CloseCall ==
    /\ ~loopClosed
    /\ sender.n >= 1
    /\ sender.closer.pc = "idle" /\ sender.closer.n < MaxCloses
    /\ LET k == sender.writer
           c == [sender.closer EXCEPT !.n = @ + 1, !.k = k]
       IN  sender' = [sender EXCEPT !.closer =
                IF k = 0 THEN [c EXCEPT !.res = "ok"]
                ELSE IF sender.tasks[k].state \in Terminal
                THEN [c EXCEPT !.res = close_result(sender.tasks[k])]
                ELSE [c EXCEPT !.pc = "writer", !.res = None]]
    /\ UNCHANGED <<Other, loopClosed>>

\* the caller of close() is cancelled while it awaits the task: the
\* cancellation goes to the awaited task
CloseCancelled ==
    /\ ~loopClosed
    /\ sender.closer.pc = "writer"
    /\ sender.tasks[sender.closer.k].state \notin Terminal
    /\ ~sender.tasks[sender.closer.k].cancel
    /\ sender' = [sender EXCEPT !.tasks[sender.closer.k] = cancel(@)]
    /\ UNCHANGED <<Other, loopClosed>>

\* the finished task wakes close()
CloseResume ==
    /\ ~loopClosed
    /\ sender.closer.pc = "writer"
    /\ sender.tasks[sender.closer.k].state \in Terminal /\ sender.tasks[sender.closer.k].ran
    /\ sender' = [sender EXCEPT !.closer.pc = "idle",
                                !.closer.res = close_result(sender.tasks[sender.closer.k])]
    /\ UNCHANGED <<Other, loopClosed>>

\* the loop is closed while the request still holds a writer
SenderLoopClose ==
    /\ ~loopClosed
    /\ sender.pc = "idle" /\ sender.writer # 0
    /\ loopClosed' = TRUE
    /\ UNCHANGED <<Other, sender>>

\* a constructed request of the given inputs, not yet sent
InitSender(inputs) ==
    /\ \E a \in SentRequests :
          ~a.expect100 /\ a.headers.EX = None /\ InitExchange(a, FALSE, FALSE, FALSE)
    /\ \E i \in inputs, eager \in BOOLEAN :
          /\ ClientRequest(i.a).error = None
          /\ sender = NewSender(i, eager)

InitSend == InitSender(SendInputs)

NextSend ==
    \/ SendBegin \/ SendHeadersWritten \/ SendHeadersFail
    \/ TaskStart \/ TaskContinue \/ TaskDrainFail \/ TaskChunk \/ TaskChunkFail
    \/ TaskEofDone \/ TaskEofFail \/ TaskCancelled \/ TaskCallbacks
    \/ ContinueResolved \/ Terminate \/ CloseCall \/ CloseCancelled \/ CloseResume
    \/ SenderLoopClose

SpecSend == InitSend /\ [][NextSend]_vars

\* send() on its own, for every request: the caller sends again before the
\* loop runs anything else
InitSendHead == InitSender(HeadInputs)

NextSendHead == SendBegin \/ SendHeadersWritten \/ SendHeadersFail

SpecSendHead == InitSendHead /\ [][NextSendHead]_vars

\* ------------------------------------------------- claims

\* C1: connection.release() is never invoked while the writer task has not
\* reached a terminal state; a release() issued while the writer is still
\* running only requests its cancellation and registers the release of the
\* connection as a done-callback of the task.
C1_ReleaseWaitsForWriter ==
    [][ /\ conn'.released > conn.released => task.state \in Terminal
        /\ (Release /\ resp.writer /\ task.state \notin Terminal) =>
              /\ task'.cancel
              /\ task'.state = task.state
              /\ conn' = conn
              /\ resp'.connection = resp.connection
              /\ resp.connection => task'.cbs = Append(task.cbs, "release") ]_vars

\* release() was called while the writer runs: cancellation requested, the
\* connection still bound, its release queued behind the task
C1_Witness ==
    /\ resp.released /\ resp.terminal = "Released"
    /\ resp.connection /\ conn.released = 0
    /\ task.state \in {"body", "eof"} /\ task.cancel
    /\ "release" \in Range(task.cbs)


\* a step that calls read()
ReadCalled == reader'.n = reader.n + 1

\* a step in which read() returns its body to the caller
ReadReturns == reader' # reader /\ reader'.pc = "idle" /\ reader'.res = "ok"

C3_ReadAfterReleaseClosedError ==
    [][ (ReadCalled /\ resp.released /\ resp.body = None) =>
              /\ reader'.pc = "idle"
              /\ reader'.res = "ConnectionClosed"
              /\ reader'.val = None /\ resp'.body = None ]_vars

\* C3 (amended): read() on a released response whose body was never cached
\* fails at once and returns no body; the error is the one the content stream
\* holds: connection-closed, unless the stream had already been failed with
\* another error before release(), which release() leaves in place.
C3_ReadAfterReleaseFails ==
    /\ [](resp.released /\ content.bound => content.exc # None)
    /\ [][ (Release /\ ~resp.released /\ content.bound) =>
              content'.exc = IF content.exc = None THEN "ConnectionClosed" ELSE content.exc ]_vars
    /\ [][ (ReadCalled /\ resp.released /\ resp.body = None) =>
              /\ reader'.pc = "idle"
              /\ reader'.res = content.exc /\ reader'.res \in {"ConnectionClosed", "WriteError"}
              /\ reader'.val = None /\ resp'.body = None ]_vars

\* release() handed the connection back, then a first read() failed
C3_Witness ==
    /\ resp.terminal = "Released" /\ conn.released = 1 /\ conn.closed = 0
    /\ reader.n = 1 /\ reader.pc = "idle" /\ ~reader.cached
    /\ reader.res = "ConnectionClosed" /\ resp.body = None


\* C4: once the body is in the cache, every later read() returns the cached
\* value, unless the response has been released (release() or close()), and
\* then it fails with the connection-closed error.
C4_CachedReadReturnsOrClosed ==
    /\ [][ (ReadCalled /\ resp.body # None /\ resp.released) =>
              reader'.pc = "idle" /\ reader'.res = "ConnectionClosed" ]_vars
    /\ [][ (reader' # reader /\ reader'.cached /\ reader'.pc = "idle" /\ ~resp.released) =>
              reader'.res = "ok" /\ reader'.val = resp.body /\ resp'.body = resp.body ]_vars


\* C5 (as claimed): read() returns the cached body whenever the body is
\* already cached, and its connection-closed failure occurs only when the
\* response was released without a cached body.
C5_CachedAlwaysReturned ==
    /\ [][ (ReadCalled /\ resp.body # None) =>
              reader'.res = "ok" /\ reader'.val = resp.body ]_vars
    /\ [](reader.res = "ConnectionClosed" => ~reader.cached)

\* C5 (amended): a read() that finds the body cached never reads the content
\* stream again; it fails with the connection-closed error if and only if the
\* response has been released (release() or close()), otherwise whatever it
\* returns is the cached body; the connection-closed failure of read()
\* occurs only on a released response, with or without a cached body.
C5_CachedReturnedUnlessReleased ==
    /\ [][ (ReadCalled /\ resp.body # None) =>
              /\ reader'.pc = "idle"
              /\ reader'.contentReads = reader.contentReads
              /\ resp'.body = resp.body /\ content' = content
              /\ (reader'.res = "ConnectionClosed") <=> resp.released
              /\ reader'.res = "ok" => reader'.val = resp.body ]_vars
    /\ [](reader.res = "ConnectionClosed" => resp.released)

\* a read() found the body cached on a released response and failed
C5_Witness ==
    /\ reader.cached /\ reader.pc = "idle" /\ reader.res = "ConnectionClosed"
    /\ resp.body \in Payloads /\ resp.terminal = "Released"


\* read() reaches its last lines holding an upgraded connection
HoldsUpgraded == resp.connection /\ conn.upgraded

C7_ReadFailureCloses ==
    ( /\ reader.pc = "idle"
      /\ \/ reader.res \in {"TraceError", "WriterCancelled", "WriterFailed"}
         \/ reader.res \in {"ConnectionClosed", "WriteError"} /\ ~reader.cached )
    => resp.closed /\ resp.released /\ ~resp.connection

\* the same for the failures read() catches: content stream and trace hook
ReadFailureInTryCloses ==
    ( /\ reader.pc = "idle"
      /\ \/ reader.res = "TraceError"
         \/ reader.res \in {"ConnectionClosed", "WriteError"} /\ ~reader.cached )
    => resp.closed /\ resp.released /\ ~resp.connection /\ resp.terminal # None


\* C8 (as claimed): close() on a started response that holds a connection
\* marks it closed, fails a content stream that has not failed yet with the
\* connection-closed error, requests cancellation of a pending writer and
\* closes the connection without waiting for the writer; after a close()
\* nothing calls connection.release().
C8_CloseClosesConnection ==
    /\ [][ (Close /\ resp.connection) =>
              /\ resp'.closed /\ resp'.released
              /\ content'.exc = IF content.exc = None THEN "ConnectionClosed" ELSE content.exc
              /\ (resp.writer /\ task.state \notin Terminal) => task'.cancel
              /\ task'.state = task.state
              /\ conn'.closed = conn.closed + 1 /\ conn'.released = conn.released
              /\ ~resp'.connection ]_vars
    /\ [][ resp.terminal = "Closed" => conn'.released = conn.released ]_vars

\* C8 (amended): the same, for a close() called while the event loop is not
\* closed, and for the connection it closed.  (On a closed loop close()
\* marks the response closed and released, fails the content stream, and
\* leaves the writer and the connection as they are.)
C8_CloseClosesConnectionOnOpenLoop ==
    /\ [][ (Close /\ resp.connection /\ ~loopClosed) =>
              /\ resp'.closed /\ resp'.released
              /\ content'.exc = IF content.exc = None THEN "ConnectionClosed" ELSE content.exc
              /\ (resp.writer /\ task.state \notin Terminal) => task'.cancel
              /\ task'.state = task.state
              /\ conn'.closed = conn.closed + 1 /\ conn'.released = conn.released
              /\ ~resp'.connection ]_vars
    /\ [][ (Close /\ resp.connection /\ loopClosed) =>
              /\ resp'.closed /\ resp'.released
              /\ content'.exc = IF content.exc = None THEN "ConnectionClosed" ELSE content.exc
              /\ task' = task /\ conn' = conn /\ resp'.connection ]_vars
    /\ [][ conn.closed > 0 => conn'.released = conn.released /\ ~resp'.connection ]_vars

\* close() closed the connection under a writer that had not finished
C8_Witness ==
    /\ resp.terminal = "Closed" /\ resp.closed /\ resp.released
    /\ ~resp.connection /\ conn.closed = 1 /\ conn.released = 0
    /\ content.exc = "ConnectionClosed"
    /\ task.state \in {"body", "eof"} /\ task.cancel


\* C9: when the protocol reports an upgraded connection the end-of-payload
\* callback changes nothing: closed flag, writer task (no cancellation) and
\* connection (not released, not closed) stay as they are; when the
\* connection is not upgraded and the response is open it marks the response
\* closed and does to the writer and the connection what release() does.
C9_EofCallback ==
    [][ EndOfPayload =>
          LET w == [World EXCEPT !.content.eof = TRUE]
              r == release(w)
          IN  IF HoldsUpgraded
              THEN resp' = resp /\ task' = task /\ conn' = conn /\ req' = req
              ELSE ~resp.closed =>
                      /\ resp'.closed
                      /\ resp'.connection = r.resp.connection
                      /\ resp'.writer = r.resp.writer
                      /\ task' = r.task
                      /\ conn' = r.conn ]_vars

\* the payload ended on an upgraded connection while the writer was running:
\* the response is still open and bound, nothing was cancelled
C9_Witness ==
    /\ content.eof /\ conn.upgraded
    /\ ~resp.closed /\ resp.connection /\ conn.released = 0 /\ conn.closed = 0
    /\ task.state \in {"body", "eof"} /\ ~task.cancel /\ resp.writer

\* the payload ended on a connection that is not upgraded while the writer
\* was running: cancellation requested, the release queued behind the task
C9_WitnessReleased ==
    /\ content.eof /\ ~conn.upgraded /\ resp.closed /\ ~resp.released
    /\ resp.connection /\ task.cancel /\ "release" \in Range(task.cbs)


\* C10 (as claimed): once release() has made the response Released or close()
\* has made it Closed, closed stays true, a Released response's connection
\* is never closed afterwards and a Closed response's connection is never
\* released afterwards.
C10_TerminalStatesAbsorbing ==
    [][ resp.terminal # None =>
          /\ resp'.closed /\ resp'.terminal = resp.terminal
          /\ resp.terminal = "Released" => conn'.closed = conn.closed
          /\ resp.terminal = "Closed" => conn'.released = conn.released ]_vars

\* C10 (amended): once release() or close() has run, the closed and released
\* flags stay true and Released / Closed stays what it was; a connection that
\* has been handed back with release() is never closed afterwards and a
\* connection that has been closed is never released afterwards.  (A Released
\* response whose connection is still bound, its release waiting for the
\* writer, can have it closed by a later close() or failing read(); a
\* response closed on a closed event loop keeps its connection, which a later
\* release() hands back.)
C10_TerminalFlagsAbsorbing ==
    /\ [][ resp.terminal # None =>
              /\ resp'.closed /\ resp'.released /\ resp'.terminal = resp.terminal
              /\ conn.released > 0 => conn' = conn /\ ~resp'.connection
              /\ conn.closed > 0 => conn' = conn /\ ~resp'.connection ]_vars
    /\ [](resp.terminal # None => resp.closed /\ resp.released)
    /\ [](conn.released + conn.closed <= 1)

\* release() ran while the writer was pending, the writer finished, the
\* connection was handed back, and further release() / close() / read() calls
\* were made
C10_Witness ==
    /\ resp.terminal = "Released" /\ conn.released = 1 /\ conn.closed = 0
    /\ task.state \in Terminal /\ task.eof /\ task.ran
    /\ reader.n >= 1 /\ reader.res = "ConnectionClosed"

\* the last call constructed a request from these arguments
Constructed == call.fn = "ClientRequest"

\* caller-supplied header tests, as the constructor reads them
HasContentEncoding(a) == lower(get(a.headers.CE)) # Empty
HasChunkedHeader(a) == contains_chunked(lower(get(a.headers.TE)))

\* C11 (as claimed): construction fails for every request that combines a
\* compress flag with a Content-Encoding header, a chunked flag with a
\* Content-Length header, or a chunked flag with a Transfer-Encoding: chunked
\* header.
C11_ConflictsAlwaysFail ==
    ( /\ Constructed
      /\ \/ Truthy(call.args.compress) /\ call.args.headers.CE # None
         \/ call.args.chunked = "True" /\ call.args.headers.CL # None
         \/ call.args.chunked = "True" /\ HasChunkedHeader(call.args) )
    => call.ret.error # None

\* chunked transfer is in force: asked for by the flag, or switched on by the
\* constructor for a compressed body or a body of unknown length
ChunkedInForce(a) ==
    \/ a.chunked = "True"
    \/ a.data # None /\ Truthy(a.compress) /\ ~HasContentEncoding(a)
    \/ a.data # None /\ ~size_known(a.data) /\ a.headers.CL = None

\* C11 (amended): construction fails with a configuration error exactly when
\* (a) data is given, the compress flag is set and a non-empty Content-Encoding
\* header is present, or (b, c) the request has data or a method other than
\* GET/HEAD/OPTIONS/TRACE, chunked transfer is in force (by the flag, or
\* forced by compress or by a body of unknown length) and a Content-Length
\* header or a Transfer-Encoding header containing chunked is present.  A
\* request without data and with one of those four methods is constructed
\* whatever flags and headers it combines.
C11_ConflictsFailWithBody ==
    Constructed =>
        LET a == call.args
            applies == a.data # None \/ upper(a.method) \notin GET_METHODS
        IN  /\ call.ret.error # None <=>
                  \/ a.data # None /\ Truthy(a.compress) /\ HasContentEncoding(a)
                  \/ applies /\ ChunkedInForce(a)
                             /\ (a.headers.CL # None \/ HasChunkedHeader(a))
            /\ ~applies => call.ret.error = None

\* a POST with data, chunked=True and a Content-Length header was refused
C11_Witness ==
    /\ Constructed
    /\ call.args.method = "POST" /\ call.args.data = "abc"
    /\ call.args.chunked = "True" /\ call.args.headers.CL = "3"
    /\ call.args.compress = None /\ call.args.headers.TE = None
    /\ call.ret.error = "ValueError: chunked can not be set if Content-Length header is set"


\* C12: the header set of a constructed request never holds both a
\* Content-Length header and a Transfer-Encoding header naming chunked.
C12_LengthAndChunkedExclusive ==
    (Constructed /\ call.ret.error = None) =>
        ~(call.ret.headers.CL # None /\ contains_chunked(lower(get(call.ret.headers.TE))))

\* the headers are exclusive whenever the caller supplied no Transfer-Encoding
\* header that contains chunked and the request has data or a body method
LengthAndChunkedExclusiveWithoutHeader ==
    ( /\ Constructed /\ call.ret.error = None
      /\ ~HasChunkedHeader(call.args)
      /\ call.args.data # None \/ upper(call.args.method) \notin GET_METHODS )
    => ~(call.ret.headers.CL # None /\ contains_chunked(lower(get(call.ret.headers.TE))))

\* the waiter is armed exactly for expect100 or an Expect: 100-continue header
ContinueArmedIffExpected ==
    (Constructed /\ call.ret.error = None) =>
        /\ call.ret.continue <=>
              (call.args.expect100 \/ lower(get(call.args.headers.EX)) = "100-continue")
        /\ call.args.expect100 => call.ret.headers.EX = "100-continue"

\* C13: while the continuation waiter of a request is armed and not resolved,
\* the body writer has written no body chunk and no end-of-body marker; it
\* starts the body only once the waiter is resolved; cancelled while it waits,
\* it finishes normally without having written any of the body.
C13_NoBodyBeforeContinue ==
    /\ [](req.continue = "pending" => task.chunks = 0 /\ ~task.eof)
    /\ [][ (task.state = "wait100" /\ task'.state = "body") =>
              req.continue = "resolved" /\ ~task.cancel ]_vars
    /\ [][ (WriterCancelled /\ task.state = "wait100") =>
              task'.state = "done" /\ task'.chunks = 0 /\ ~task'.eof ]_vars
    /\ [][ (task.state \in Terminal /\ task.chunks = 0 /\ ~task.eof) =>
              task'.chunks = 0 /\ ~task'.eof ]_vars

\* the peer answered without 100 Continue, release() cancelled the writer
\* waiting for it, and the writer finished with nothing of the body written
C13_Witness ==
    /\ req.continue = "pending" /\ resp.continue
    /\ Started /\ resp.terminal = "Released"
    /\ task.state = "done" /\ task.ran /\ task.chunks = 0 /\ ~task.eof
    /\ conn.released = 1

\* C14: start() discards every head with a status in 100..199 other than 101
\* and reads on, recording nothing; the first head it discards resolves the
\* armed continuation waiter and no other step touches the waiter; the status
\* start() records is never in 100..199, 101 excepted.
C14_InformationalDiscarded ==
    /\ [](IF Started THEN resp.status \in PeerCodes \ ((100..199) \ {101})
                     ELSE resp.status = 0)
    /\ [][ StartInformational =>
              /\ resp'.started = "reading" /\ resp'.status = 0
              /\ content' = content /\ conn'.infos = conn.infos + 1
              /\ ~resp'.continue ]_vars
    /\ [][ (StartInformational /\ conn.infos = 0 /\ req.continue = "pending") =>
              req'.continue = "resolved" ]_vars
    /\ [][ req'.continue # req.continue =>
              StartInformational /\ conn.infos = 0 /\ req.continue = "pending" ]_vars

\* the peer sent two informational heads and then 200: the waiter is resolved,
\* the body was written and the recorded status is 200
C14_Witness ==
    /\ Started /\ resp.status = 200 /\ conn.infos = 2
    /\ req.continue = "resolved" /\ ~resp.continue
    /\ task.state = "done" /\ task.eof /\ task.chunks = NChunks

\* C15: keep_alive() is false for every version below 1.0; for HTTP/1.0 it
\* is true if and only if the Connection header is keep-alive; for HTTP/1.1
\* it is true unless the Connection header is close.
C15_KeepAliveMatrix ==
    call.fn = "keep_alive" =>
        LET v == call.args.version
            co == call.args.headers.CO
        IN  /\ (v[1] < 1) => ~call.ret
            /\ v = <<1, 0>> => (call.ret <=> co = "keep-alive")
            /\ v = <<1, 1>> => (call.ret <=> co # "close")

\* an HTTP/1.0 request with Connection: keep-alive is kept alive
C15_Witness ==
    /\ call.fn = "keep_alive"
    /\ call.args.version = <<1, 0>> /\ call.args.headers.CO = "keep-alive"
    /\ call.ret = TRUE


\* the last call asked for the keys of two requests
KeysTaken == call.fn = "connection_key"

\* C16: two requests that differ in host, port, TLS-ness of the scheme, TLS
\* policy, proxy URL, proxy auth or proxy headers have unequal connection keys.
C16_DifferentRequestsDifferentKeys ==
    KeysTaken =>
        LET r1 == call.args[1]
            r2 == call.args[2]
        IN  ( \/ r1.url.host # r2.url.host
              \/ url_port(r1.url) # url_port(r2.url)
              \/ is_ssl(r1) # is_ssl(r2)
              \/ r1.ssl # r2.ssl
              \/ r1.proxy # r2.proxy
              \/ r1.proxy_auth # r2.proxy_auth
              \/ r1.proxy_headers.items # r2.proxy_headers.items )
            => call.ret[1] # call.ret[2]

\* the keys are unequal whenever the requests differ in anything but their
\* proxy headers, and whenever the hashes of their proxy headers differ
KeysDifferUpToHash ==
    KeysTaken =>
        LET r1 == call.args[1]
            r2 == call.args[2]
        IN  /\ ( \/ r1.url.host # r2.url.host
                 \/ url_port(r1.url) # url_port(r2.url)
                 \/ is_ssl(r1) # is_ssl(r2)
                 \/ r1.ssl # r2.ssl
                 \/ r1.proxy # r2.proxy
                 \/ r1.proxy_auth # r2.proxy_auth
                 \/ call.ret[1].proxy_headers_hash # call.ret[2].proxy_headers_hash )
               <=> call.ret[1] # call.ret[2]
            /\ r1 = r2 => call.ret[1] = call.ret[2]


\* C17: Fingerprint() succeeds for a digest of 32 bytes and for no other:
\* digests of 16 and 20 bytes are refused as insecure, every other length as
\* invalid, and a refused construction yields no Fingerprint object.
C17_FingerprintOnlySha256 ==
    call.fn = "Fingerprint" =>
        LET n == Len(call.args)
        IN  /\ call.ret.error = None <=> n = 32
            /\ n = 32 => /\ call.ret.hashfunc = "sha256"
                         /\ call.ret.fingerprint = call.args
            /\ n \in {16, 20} =>
                  call.ret.error = "ValueError: md5 and sha1 are insecure and not supported. Use sha256."
            /\ n \notin {16, 20, 32} =>
                  call.ret.error = "ValueError: fingerprint has invalid length"
            /\ call.ret.error # None => DOMAIN call.ret = {"error"}

\* a SHA-1 digest was refused
C17_Witness ==
    /\ call.fn = "Fingerprint" /\ Len(call.args) = 20
    /\ call.ret.error = "ValueError: md5 and sha1 are insecure and not supported. Use sha256."

\* the response has been destroyed
Destroyed == call.fn = "__del__"

\* C18: the destructor of a response that is still open reports the leak with
\* a warning and corrects nothing: it neither hands the connection back nor
\* cancels the writer.
C18_DestructorOnlyWarns ==
    [][ (Del /\ ~resp.closed) =>
            /\ call'.warned
            /\ conn' = conn /\ task' = task /\ resp' = resp ]_vars

\* what the destructor of an open response does: it hands a bound connection
\* back at once, cancels a writer the response still holds, and warns only
\* if the loop is in debug mode
DestructorReleases ==
    [][ (Del /\ ~resp.closed /\ resp.connection) =>
            /\ conn'.released = conn.released + 1 /\ conn'.closed = conn.closed
            /\ resp' = resp
            /\ task'.state = task.state ]_vars

\* an open response holding its connection was destroyed, with no warning
DestructorReleasedSilently ==
    /\ Destroyed /\ call.open /\ ~call.warned
    /\ resp.connection /\ ~resp.closed /\ conn.released = 1

\* C19: a failure of the drain before the 100-continue wait, of a chunk
\* write or of the end-of-body write is handed to the protocol's
\* deferred-exception slot; the writer task never ends with the exception and
\* read() never receives it from the task.
C19_WriteFailuresDeferred ==
    /\ [](task.state # "failed")
    /\ [](reader.res # "WriterFailed")
    /\ [][ (WriterDrainFail \/ WriterChunkFail \/ WriterEofFail) => conn'.exc ]_vars

\* the failure of a chunk write is deferred: the slot is set, a bound content
\* stream is failed and the task ends normally
ChunkWriteFailureDeferred ==
    [][ WriterChunkFail =>
            /\ conn'.exc /\ task'.state = "done"
            /\ (content.bound /\ content.exc = None) => content'.exc = "WriteError" ]_vars


\* release() has run, the connection is still bound and the writer has not finished
ReleasePending == resp.terminal = "Released" /\ resp.connection /\ task.state \notin Terminal

\* C20: after a release() under a running writer the writer terminates and the
\* connection is handed back to the pool, not closed, unless a close() closes
\* it first; it is never handed back twice.
C20_DeferredReleaseHappens ==
    /\ ReleasePending ~>
          /\ task.state \in Terminal
          /\ \/ ~resp.connection /\ conn.released = 1 /\ conn.closed = 0
             \/ conn.closed > 0
    /\ [](conn.released <= 1)
    /\ [][ conn'.closed > conn.closed => (Close \/ ReadCall \/ ReadContentResume \/ ReadTraceFail) ]_vars

\* release() ran under a writer in the middle of the body; the writer wrote
\* the end-of-body marker and finished, and the connection was handed back
C20_Witness ==
    /\ resp.terminal = "Released" /\ ~resp.connection
    /\ conn.released = 1 /\ conn.closed = 0
    /\ task.state = "done" /\ task.eof /\ task.chunks < NChunks /\ task.ran
    /\ reader.n = 0


\* C21: over every interleaving of read(), release(), close(), end-of-payload
\* and writer-completion callbacks, upgraded connections included, a response
\* calls connection.release() and connection.close() at most once in total:
\* each such call is made on the bound connection and unbinds it, and nothing
\* is called on a connection that was handed back or closed.
C21_AtMostOneHandBack ==
    /\ [](conn.released + conn.closed <= 1)
    /\ [][ conn' # conn /\ (conn'.released # conn.released \/ conn'.closed # conn.closed) =>
              /\ resp.connection /\ ~resp'.connection
              /\ conn.released + conn.closed = 0
              /\ conn'.released + conn'.closed = 1 ]_vars

\* two release observers were queued on the finished writer; the first handed
\* the connection back and the second is still to run
C21_Witness ==
    /\ conn.released = 1 /\ conn.closed = 0 /\ ~resp.connection
    /\ task.state \in Terminal /\ task.ran
    /\ task.late # <<>> /\ Head(task.late) = "release"


\* C22: a writer cancelled while it streams the body goes on to write the
\* end-of-body marker before it finishes; a cancelled writer finishes without
\* having attempted the marker only if no byte of the body was sent: it was
\* cancelled while it waited for 100 Continue, or before its first step.
C22_CancelledWriterWritesEof ==
    /\ (task.state = "body" /\ task.cancel) ~> (task.state \in Terminal /\ task.eof)
    /\ [][ (WriterCancelled /\ task.state = "body") =>
              task'.state = "eofc" /\ task'.eof /\ task'.chunks = task.chunks ]_vars
    /\ [][ (WriterCancelled /\ task'.state \in Terminal /\ ~task'.eof) =>
              task.chunks = 0 /\ task.state \in {"new", "wait100"} ]_vars
    /\ [][ (task.state = "eofc") => task'.state \in {"eofc", "done", "failed", "cancelled"} ]_vars

\* the payload ended while the writer was in the middle of the body: the
\* cancelled writer wrote the end-of-body marker and finished
C22_Witness ==
    /\ content.eof /\ ~conn.upgraded /\ resp.terminal = None /\ resp.closed
    /\ task.state = "done" /\ task.eof /\ task.chunks = 1 /\ ~task.cancel


\* C23: the writer handle of the request and the writer handle of the
\* response are none whenever the writer task has completed, so release(),
\* read() and close() never find a completed writer still in flight.
C23_HandleNoneWhenTaskDone ==
    /\ [](task.state \in Terminal => ~resp.writer /\ ~req.writer)
    /\ [][ ((Release \/ Close \/ ReadCall) /\ resp.writer) => task.state \notin Terminal ]_vars

\* what holds of the handles: a task that is handed over completed leaves them
\* none at once; they are set while the task runs; the completion observers
\* clear them once, when the loop runs the callbacks of the completed task,
\* and they stay none
HandleNoneAfterCallbacks ==
    /\ [](task.state \notin Terminal => resp.writer /\ req.writer)
    /\ [](task.state \in Terminal /\ task.ran => ~resp.writer /\ ~req.writer)
    /\ [][ resp'.writer # resp.writer =>
              DoneCallbacks /\ resp.writer /\ ~resp'.writer /\ ~req'.writer ]_vars

\* release() ran between the end of the writer task and its callbacks: it
\* found the handle set and queued the release behind the completed task
CompletedWriterSeenInFlight ==
    /\ task.state \in Terminal /\ ~task.ran /\ resp.writer
    /\ resp.terminal = "Released" /\ resp.connection /\ task.late = <<"release">>


\* C24: in every send() the status line and the headers are on the wire
\* before the body-writer task exists: while the header write is awaited the
\* send has no task and has written nothing, a task exists only after the
\* headers, and no chunk and no end-of-body marker precedes them.
C24_HeadersBeforeBody ==
    \A k \in Sends :
        LET w == sender.wire[k]
        IN  /\ (sender.pc = "headers" /\ k = sender.n) =>
                  sender.tasks[k].state = "none" /\ w = <<>>
            /\ sender.tasks[k].state # "none" => w # <<>> /\ w[1] = "headers"
            /\ \A i \in 1..Len(w) :
                  IF i = 1 THEN w[i] = "headers" ELSE w[i] \in {"chunk", "eof"}

\* an eagerly started task wrote the whole body inside send(), after the headers
C24_Witness ==
    /\ sender.eager /\ sender.n = 1 /\ sender.pc = "idle"
    /\ sender.tasks[1].state = "done"
    /\ Len(sender.wire[1]) = NChunks + 2
    /\ sender.wire[1][1] = "headers" /\ sender.wire[1][NChunks + 2] = "eof"

\* the writer tasks of the request that have not finished
RunningTasks == {k \in Sends : sender.tasks[k].state \notin Terminal \cup {"none"}}

\* C25: at most one body-writer task of a request runs at any time, whatever
\* sequence of send() calls is made on the request.
C25_OneWriterPerRequest == Cardinality(RunningTasks) <= 1

\* what send() does about an earlier task: it takes the request's completion
\* observer off it and lets it run; the request's handle is none or the
\* task of the latest send() that created one
SendLeavesEarlierTask ==
    /\ [](sender.writer # 0 =>
            \/ sender.writer = sender.n
            \/ sender.writer = sender.n - 1 /\ (sender.pc = "headers" \/ sender.tasks[sender.n].state = "none"))
    /\ [][ SendHeadersWritten =>
              \A k \in Sends : k # sender'.n =>
                  /\ sender'.tasks[k].state = sender.tasks[k].state
                  /\ sender'.tasks[k].cancel = sender.tasks[k].cancel ]_vars

\* two send() calls on one request: both writer tasks are in the body
TwoWritersRunning ==
    /\ sender.n = 2 /\ sender.writer = 2
    /\ sender.tasks[1].state = "body" /\ sender.tasks[2].state = "body"
    /\ ~sender.tasks[1].cancel

\* a step in which close() returns or raises
CloseReturns == sender.closer.pc # None /\ sender'.closer # sender.closer /\ sender'.closer.pc = "idle"

\* C26 (as claimed): terminate() on a request whose writer is pending requests
\* its cancellation, takes the completion observer off it and clears the
\* handle without waiting; close() returns only once the task its handle
\* referred to is finished, and never with the task's cancellation error.
C26_Teardown ==
    /\ [][ (Terminate /\ sender.writer # 0 /\ sender.tasks[sender.writer].state \notin Terminal) =>
              LET k == sender.writer
              IN  /\ sender'.tasks[k].cancel
                  /\ "req_reset_writer" \notin Range(sender'.tasks[k].cbs)
                  /\ sender'.tasks[k].state = sender.tasks[k].state
                  /\ sender'.writer = 0 ]_vars
    /\ [][ (CloseReturns /\ sender'.closer.k # 0) =>
              sender'.tasks[sender'.closer.k].state \in Terminal ]_vars
    /\ [][ CloseReturns => sender'.closer.res \in {"ok", "WriterFailed"} ]_vars

\* C26 (amended): the same, with the cancellation requested only while the
\* event loop is not closed: on a closed loop terminate() takes the observer
\* off the pending task and clears the handle, and does not cancel the task.
\* A close() whose caller is cancelled passes the cancellation to the task and
\* still returns normally once the task is finished.
C26_TeardownOnOpenLoop ==
    /\ [][ (Terminate /\ sender.writer # 0 /\ sender.tasks[sender.writer].state \notin Terminal) =>
              LET k == sender.writer
              IN  /\ sender'.tasks[k].cancel = (sender.tasks[k].cancel \/ ~loopClosed)
                  /\ "req_reset_writer" \notin Range(sender'.tasks[k].cbs)
                  /\ sender'.tasks[k].state = sender.tasks[k].state
                  /\ sender'.writer = 0 ]_vars
    /\ [][ (CloseReturns /\ sender'.closer.k # 0) =>
              sender'.tasks[sender'.closer.k].state \in Terminal ]_vars
    /\ [][ CloseReturns =>
              /\ sender'.closer.res \in {"ok", "WriterFailed"}
              /\ sender'.closer.res = "WriterFailed" =>
                    sender'.tasks[sender'.closer.k].state = "failed" ]_vars
    /\ [][ (CloseCall /\ sender.writer # 0 /\ sender.tasks[sender.writer].state \notin Terminal) =>
              sender'.closer.pc = "writer" /\ sender'.tasks = sender.tasks ]_vars

\* terminate() ran on a request whose writer was in the body: cancellation
\* requested, the request's observer gone, the handle none, the task still there
C26_Witness ==
    /\ sender.writer = 0 /\ sender.n = 1 /\ ~loopClosed
    /\ sender.tasks[1].state = "body" /\ sender.tasks[1].cancel
    /\ sender.tasks[1].cbs = <<"reset_writer">>

\* close() waited for a writer that was then cancelled, and returned normally
CloseSuppressedCancellation ==
    /\ sender.closer.n = 1 /\ sender.closer.pc = "idle" /\ sender.closer.res = "ok"
    /\ sender.closer.k = 1 /\ sender.tasks[1].state = "cancelled"

C29_FramingMatchesHeaders ==
    [][ SendBegin =>
          (sender'.stream[sender'.n].chunking <=>
              contains_chunked(lower(get(sender'.request.headers.TE)))) ]_vars

\* what holds of the framing: it is enabled exactly when the chunked
\* attribute of the request is not None (True or False), and send() leaves the
\* Transfer-Encoding header as the constructor left it
FramingFollowsChunkedAttribute ==
    [][ SendBegin =>
          /\ sender'.stream[sender'.n].chunking <=> sender.request.chunked # None
          /\ sender'.request.headers.TE = sender.request.headers.TE
          /\ sender'.request.headers.CL = sender.request.headers.CL ]_vars

\* a request constructed with chunked=False is sent with a Content-Length
\* header and chunked framing
LengthHeaderWithChunkedFraming ==
    /\ sender.n = 1 /\ sender.request.chunked = "False"
    /\ sender.request.headers.CL = "3" /\ sender.request.headers.TE = None
    /\ sender.stream[1].chunking


\* the peer sent its final head without any informational one: the waiter is
\* armed and unresolved and the writer is suspended on it
MissingContinue == Started /\ req.continue = "pending" /\ task.state = "wait100"

\* the writer finished without a byte of the body
NothingWritten == task.state = "done" /\ task.chunks = 0 /\ ~task.eof

\* C27: a missing 100 Continue does not deadlock.  The writer suspended on the
\* unresolved waiter is cancelled when the payload ends on a connection that
\* is not upgraded, and when release() or close() is called; once cancelled
\* it finishes without a byte of the body; after the end of the payload a
\* pending read() completes, and the connection is released to the pool
\* unless release() or close() was called (close() closes it).
C27_MissingContinueNoDeadlock ==
    /\ [][ ( /\ MissingContinue /\ resp.writer
             /\ \/ EndOfPayload /\ ~conn.upgraded /\ ~resp.closed
                \/ Release
                \/ Close ) => task'.cancel /\ task'.state = "wait100" ]_vars
    /\ (MissingContinue /\ task.cancel) ~> NothingWritten
    /\ (MissingContinue /\ content.eof /\ ~conn.upgraded) ~>
          /\ NothingWritten
          /\ reader.pc = "idle"
          /\ \/ ~resp.connection /\ conn.released = 1 /\ conn.closed = 0
             \/ resp.terminal # None
    /\ [](MissingContinue => task.chunks = 0 /\ ~task.eof)

\* the payload ended while the writer waited for a 100 Continue that never
\* came: the writer finished with nothing written, the read() that was
\* pending returned the body and the connection went back to the pool
C27_Witness ==
    /\ Started /\ req.continue = "pending" /\ resp.terminal = None
    /\ content.eof /\ ~conn.upgraded
    /\ NothingWritten /\ task.ran
    /\ reader.n = 1 /\ reader.pc = "idle" /\ reader.res = "ok"
    /\ ~resp.connection /\ conn.released = 1 /\ conn.closed = 0


\* C30: raise_for_status() on a started response with status >= 400 makes the
\* release() transition (closed and released set, a content stream that has
\* not failed is failed, a pending writer cancelled, the connection released
\* at once or behind the pending writer, never closed) and raises a response
\* error carrying the status; with status < 400 it returns normally and leaves
\* the response as it was.
C30_RaiseForStatus ==
    [][ RaiseForStatus =>
          IF resp.status >= 400
          THEN /\ call'.error = "ClientResponseError" /\ call'.status = resp.status
               /\ resp'.closed /\ resp'.released /\ resp'.status = resp.status
               /\ content'.exc = IF content.exc = None THEN "ConnectionClosed" ELSE content.exc
               /\ (resp.writer /\ task.state \notin Terminal) => task'.cancel
               /\ task'.state = task.state
               /\ conn'.closed = conn.closed
               /\ IF resp.connection
                  THEN IF resp.writer
                       THEN /\ conn' = conn /\ resp'.connection
                            /\ IF task.state \in Terminal
                               THEN task'.late = Append(task.late, "release")
                               ELSE task'.cbs = Append(task.cbs, "release")
                       ELSE conn'.released = conn.released + 1 /\ ~resp'.connection
                  ELSE conn' = conn /\ ~resp'.connection
          ELSE /\ call'.error = None
               /\ resp' = resp /\ task' = task /\ conn' = conn
               /\ content' = content /\ req' = req ]_vars

\* raise_for_status() found 400 while the writer was in the body: it raised,
\* the writer is cancelled and the release waits behind it
C30_Witness ==
    /\ call.fn = "raise_for_status" /\ call.error = "ClientResponseError" /\ call.status = 400
    /\ resp.status = 400 /\ resp.terminal = "Released" /\ resp.closed /\ resp.released
    /\ task.state = "body" /\ task.cancel /\ task.cbs # <<>> /\ task.cbs[Len(task.cbs)] = "release"
    /\ resp.connection /\ conn.released = 0

====
